---- MODULE Spec2Model ----
(***************************************************************************)
(* Hotkey dispatch and chord-matching state machine of stream_companion    *)
(* (src/src/stream_companion/hotkeys.py, class HotkeyManager).             *)
(*                                                                         *)
(* Three threads act on one manager:                                       *)
(*   - the application thread calls the registration API,                  *)
(*   - the listener thread runs _dispatch for one raw key event at a time, *)
(*   - timer threads run _disarm when an arming timer expires.             *)
(* Every `with self._lock:` block is one atomic step.  The chord part of   *)
(* _dispatch (lines 207-236) runs outside the lock, so it is split at the  *)
(* read of self._armed.  An exception that leaves _dispatch ends the       *)
(* listener thread (pcD = "dead").                                         *)
(*                                                                         *)
(* A combination string is a sequence of one-character strings.            *)
(*                                                                         *)
(* The chord-less HotkeyManager of src/stream_animate/hotkeys.py is kept   *)
(* next to it (variable plain) and is given the same calls and key events. *)
(***************************************************************************)
EXTENDS Integers, Sequences, FiniteSets, TLC

\* ------------------------------------------------------------- bounds --
\* Timer threads that may be between their cancel test and _disarm at once.
MaxExpiring == 1

\* Listener objects the listener factory hands out in one run.
MaxListeners == 3

\* ------------------------------------------------------------ strings --
None == <<"None">>

Max(a, b) == IF a >= b THEN a ELSE b

\* str.lower() on one character.
LowerChar(c) == IF c = "A" THEN "a" ELSE IF c = "G" THEN "g" ELSE c

\* str.lower()
Lower(s) == [i \in 1..Len(s) |-> LowerChar(s[i])]

\* Index of the first "+" of s, 0 when there is none.
RECURSIVE FindPlus(_, _)
FindPlus(s, i) ==
    IF i > Len(s) THEN 0
    ELSE IF s[i] = "+" THEN i
    ELSE FindPlus(s, i + 1)

\* str.split("+"): the segments between the "+" signs, empty ones included.
RECURSIVE Split(_)
Split(s) ==
    LET i == FindPlus(s, 1)
    IN  IF i = 0 THEN <<s>>
        ELSE <<SubSeq(s, 1, i - 1)>> \o Split(SubSeq(s, i + 1, Len(s)))

\* str.strip(): leading and trailing blanks removed, inner ones kept.
RECURSIVE Strip(_)
Strip(s) ==
    IF s = <<>> THEN s
    ELSE IF Head(s) = " " THEN Strip(Tail(s))
    ELSE IF s[Len(s)] = " " THEN Strip(SubSeq(s, 1, Len(s) - 1))
    ELSE s

\* "+".join(parts)
RECURSIVE Join(_)
Join(parts) ==
    IF parts = <<>> THEN <<>>
    ELSE IF Len(parts) = 1 THEN parts[1]
    ELSE parts[1] \o <<"+">> \o Join(Tail(parts))

\* A variant of _normalize_combination that forgets to lower-case.
NormalizeNoLower(combination) ==
    Join([i \in 1..Len(Split(combination)) |-> Strip(Split(combination)[i])])

\* HotkeyManager._normalize_combination
NormalizeCombination(combination) ==
    LET parts == [i \in 1..Len(Split(combination)) |-> Strip(Split(combination)[i])]
    IN  Lower(Join(parts))

\* keyboard.HotKey.parse as the default factory uses it: every "+"-separated
\* part names one key (here: one character), no key twice.
ParseOk(combination) ==
    LET parts == Split(combination)
    IN  /\ \A i \in 1..Len(parts) : Len(parts[i]) = 1
        /\ \A i, j \in 1..Len(parts) : i # j => LowerChar(parts[i][1]) # LowerChar(parts[j][1])

\* The key set of the matcher the factory builds.
ParseKeys(combination) ==
    {LowerChar(Split(combination)[i][1]) : i \in 1..Len(Split(combination))}

\* ---------------------------------------------------------- callbacks --
\* A callback is a record: a user callback (name), or the closure _arm_cb
\* that configure_chord_sequences builds around its timeout_ms argument.
UserCb(n) == [kind |-> "user", name |-> n, ms |-> 0]
ArmCb(t) == [kind |-> "arm", name |-> "_arm_cb", ms |-> t]

\* A callback argument that is not callable.
NotCallable == [kind |-> "none", name |-> "not_callable", ms |-> 0]

\* A variant in which no callback raises.
RaisesNever(cb) == FALSE

\* User callbacks that raise an exception when invoked.
Raises(cb) == cb.name = "cbBoom"

\* A variant in which the exception of a raising callback is not caught.
EscapesWhenRaised(site, cb) == Raises(cb)

\* Whether an exception raised by cb leaves the try block around its call:
\* "direct" is _execute_callback (lines 177-183), "chord" is the chord part
\* of _dispatch (lines 226-229).  Both catch Exception.
Escapes(site, cb) == FALSE

\* --------------------------------------------------------------- keys --
\* Raw keys the OS listener delivers: character keys (one of them shifted),
\* the special key esc and the modifier ctrl.
RawKeys == {"a", "g", "G", "h", "<esc>", "<ctrl>"}

\* A variant of the listener that hands the raw key on.
CanonicalRaw(key) == key

\* listener.canonical(key): character keys are lower-cased.
Canonical(key) == LowerChar(key)

\* HotkeyManager._key_to_token: the chord token of a canonical key, None for
\* a key that maps to no token.
NoToken == "None"

\* A variant of _key_to_token that names the modifier ctrl.
KeyToTokenModifiers(key) ==
    IF key = "<esc>" THEN "esc"
    ELSE IF key \in {"a", "g", "h"} THEN LowerChar(key)
    ELSE "ctrl"

KeyToToken(key) ==
    IF key = "<esc>" THEN "esc"
    ELSE IF key \in {"a", "g", "h"} THEN LowerChar(key)
    ELSE NoToken

\* ------------------------------------------------------------- inputs --
CombA == <<"a">>
CombG == <<"g">>
CombAVariant == <<" ", "A">>
CombAG == <<"a", "+", "g">>
CombGA == <<"G", " ", "+", "a">>
CombEmpty == <<>>

\* Sequence maps handed to configure_chord_sequences.
SeqMapGH == (<<"g", "h">> :> UserCb("cbA")) @@ (<<"h">> :> UserCb("cbB"))
SeqMapNested == (<<"g">> :> UserCb("cbBoom")) @@ (<<"g", "h">> :> UserCb("cbA"))
EmptyMap == [x \in {} |-> UserCb("cbA")]

\* Suffix maps handed to configure_chord: one key each.
SuffixMapH == [k \in {"h"} |-> UserCb("cbB")]
EmptySuffixMap == [k \in {} |-> UserCb("cbB")]

\* configure_chord, line 132: { (k,): cb for k, cb in suffix_map.items() }
Wrap(suffix_map) ==
    [s \in {<<k>> : k \in DOMAIN suffix_map} |-> suffix_map[s[1]]]

\* ------------------------------------------------------------- state ---
VARIABLES
    listener,        \* self._listener: "none" or "L"
    hotkeys,         \* self._hotkeys in insertion order: sequence of bindings
    activator_combo, \* self._activator_combo
    arm_timeout_ms,  \* self._arm_timeout_ms
    suffix_seq_map,  \* self._suffix_seq_map
    eng,             \* chord engine: armed, buffer, ignore_next, arm_timer
    expiring,        \* timer threads past their cancel test, before _disarm
    pcD,             \* listener thread: position inside _dispatch
    dAction,         \* _dispatch: action
    dKey,            \* _dispatch: canonical_key
    dSnap,           \* _dispatch: bindings of the snapshot still to be fed
    pcM,             \* application thread: position inside configure_chord_sequences
    cfg,             \* arguments of the configure call in progress
    last,            \* history: the API call just completed and its result
    ev,              \* history: the key event being dispatched
    sess,            \* history: the armed session in progress or last ended
    stopped,         \* history: stop() has returned and start() was not called since
    life,            \* listener objects created so far and the threads inside start()/stop()
    pending,         \* timers started that were neither cancelled nor have run out
    plain            \* the chord-less manager of stream_animate, given the same calls

codeVars == <<listener, hotkeys, activator_combo, arm_timeout_ms, suffix_seq_map, eng>>
vars == <<listener, hotkeys, activator_combo, arm_timeout_ms, suffix_seq_map, eng,
          expiring, pcD, dAction, dKey, dSnap, pcM, cfg, last, ev, sess, stopped, life,
          pending, plain>>

NoTimer == [st |-> "none", ms |-> 0]

\* ----------------------------------------------------- binding table ---
\* Position of the binding whose key is normalized, 0 when absent
\* (normalized in self._hotkeys / self._hotkeys.get(normalized)).
RECURSIVE IndexOf(_, _, _)
IndexOf(table, normalized, i) ==
    IF i > Len(table) THEN 0
    ELSE IF table[i].norm = normalized THEN i
    ELSE IndexOf(table, normalized, i + 1)

Registered(table, normalized) == IndexOf(table, normalized, 1) # 0

\* registered_combinations(): the combination strings as registered.
RegisteredCombinations == [i \in 1..Len(hotkeys) |-> hotkeys[i].combination]

\* A variant of dict.pop that removes nothing.
RemoveNothing(table, normalized) == table

\* dict.pop(normalized): the table without that binding.
Remove(table, normalized) ==
    SelectSeq(table, LAMBDA b : b.norm # normalized)

\* _Binding(combination, callback, hotkey) with a fresh matcher.
NewBinding(normalized, combination, callback) ==
    [norm |-> normalized, combination |-> combination, callback |-> callback,
     keys |-> ParseKeys(combination), state |-> {}]

\* ------------------------------------------------------ chord engine ---
\* A variant of _arm that starts no timer.
ArmNoTimer(timeout_ms) ==
    [armed |-> TRUE, buffer |-> <<>>, ignore_next |-> TRUE, arm_timer |-> NoTimer]

\* A variant of _arm that does not set the ignore-next flag.
ArmNoIgnore(timeout_ms) ==
    [armed |-> TRUE, buffer |-> <<>>, ignore_next |-> FALSE,
     arm_timer |-> [st |-> "waiting", ms |-> Max(100, timeout_ms)]]

\* A variant of _arm without the lower limit of the timer interval.
ArmNoClamp(timeout_ms) ==
    [armed |-> TRUE, buffer |-> <<>>, ignore_next |-> TRUE,
     arm_timer |-> [st |-> "waiting", ms |-> timeout_ms]]

\* _arm under the lock: the previous timer is cancelled and replaced.
Arm(timeout_ms) ==
    [armed |-> TRUE, buffer |-> <<>>, ignore_next |-> TRUE,
     arm_timer |-> [st |-> "waiting", ms |-> Max(100, timeout_ms)]]

\* A variant of _disarm that forgets self._buffer.clear().
DisarmKeepBuffer(e) ==
    [armed |-> FALSE, buffer |-> e.buffer, ignore_next |-> FALSE, arm_timer |-> NoTimer]

\* A variant of _disarm that keeps the timer handle.
DisarmKeepsTimer(e) ==
    [armed |-> FALSE, buffer |-> <<>>, ignore_next |-> FALSE, arm_timer |-> e.arm_timer]

\* _disarm under the lock, on the engine e it finds: the timer is cancelled
\* and dropped, the flags and the buffer are cleared.
Disarm(e) ==
    [armed |-> FALSE, buffer |-> <<>>, ignore_next |-> FALSE, arm_timer |-> NoTimer]

\* The engine as __init__ leaves it.
InitEngine ==
    [armed |-> FALSE, buffer |-> <<>>, ignore_next |-> FALSE, arm_timer |-> NoTimer]

\* s[:len(seq)] == seq
IsPrefixOf(seq, s) == Len(seq) <= Len(s) /\ SubSeq(s, 1, Len(seq)) = seq

\* any(s[:len(seq)] == seq for s in self._suffix_seq_map.keys())
PrefixOfAny(seq, map) == \E s \in DOMAIN map : IsPrefixOf(seq, s)

\* ------------------------------------------------------------ history --
\* swapped: the sequence map was replaced while the session was open and had
\* tokens in its buffer.
\* The token trace of a session is followed while it can still become a
\* registered sequence: from an arming by the press being dispatched, with no
\* timer expiry and no new sequence map since.  Off: no longer followed.
Off == <<"off">>

NoSession == [open |-> FALSE, track |-> Off, calls |-> <<>>, ends |-> <<>>, swapped |-> FALSE]

\* The session a call of _arm opens; byPress: armed by the press being dispatched.
NewSession(byPress) ==
    [open |-> TRUE, track |-> IF byPress THEN <<>> ELSE Off, calls |-> <<>>, ends |-> <<>>,
     swapped |-> FALSE]

\* Per event: armedHere/rearmed/endAtBegin, and direct: the feed of the
\* event invoked a direct callback while the engine was Armed with the
\* ignore-next flag cleared.  Of the last step only: the user
\* callbacks it invoked (fired), whether it dropped an event (dropped),
\* whether it was the chord step of a press without token in the middle of a
\* sequence (untokened), and whether it was the chord step of a token press
\* that found the ignore-next flag set by an arming before the event
\* (swallowed), whether it armed an engine that was Armed with tokens in
\* its buffer (over), and whether it fed a matcher that activated for a
\* combination that had left the table since the snapshot (orphan).
NoEvent ==
    [armedHere |-> FALSE, rearmed |-> FALSE, endAtBegin |-> "none", direct |-> FALSE,
     fired |-> <<>>, dropped |-> FALSE, untokened |-> FALSE, swallowed |-> FALSE,
     over |-> FALSE, orphan |-> FALSE]

\* A step that is no dispatch step, or invokes nothing.
Quiet(e) == [e EXCEPT !.fired = <<>>, !.dropped = FALSE, !.untokened = FALSE,
                         !.swallowed = FALSE, !.over = FALSE, !.orphan = FALSE]

\* How the last session ended, "live" while it is open, "none" before any.
LastEnd(s) ==
    IF s.open THEN "live"
    ELSE IF s.ends # <<>> THEN s.ends[Len(s.ends)]
    ELSE "none"

Cap(seq, n) == IF Len(seq) > n THEN SubSeq(seq, 1, n) ELSE seq

EndSession(s, cause) ==
    [s EXCEPT !.open = FALSE, !.ends = Cap(Append(@, cause), 2), !.swapped = FALSE]

\* The press of a key that maps to a token extends the trace, except the
\* press that armed the engine.
Typed(s, e, key, map) ==
    IF e.armedHere \/ KeyToToken(key) = NoToken \/ s.track = Off THEN s
    ELSE IF PrefixOfAny(Append(s.track, KeyToToken(key)), map)
    THEN [s EXCEPT !.track = Append(@, KeyToToken(key))]
    ELSE [s EXCEPT !.track = Off]

\* The API history is kept by the specifications that set last.on.
Log(op, comb, res, fired) ==
    IF last.on
    THEN [on |-> TRUE, seq |-> 1 - last.seq, op |-> op, comb |-> comb, res |-> res,
          fired |-> fired]
    ELSE last

NoCall(on) ==
    [on |-> on, seq |-> 0, op |-> "none", comb |-> <<>>, res |-> "none", fired |-> <<>>]

\* ----------------------------------------------------------- matchers --
\* keyboard.HotKey.press / release on a matcher with key set keys and held
\* keys state: the new held keys.
Feed(action, key, keys, state) ==
    IF action = "press"
    THEN IF key \in keys /\ key \notin state THEN state \cup {key} ELSE state
    ELSE state \ {key}

\* A variant of the matcher that never calls on_activate.
ActivatesNever(action, key, keys, state) == FALSE

\* keyboard.HotKey.press calls on_activate when the last key of the set goes down.
Activates(action, key, keys, state) ==
    /\ action = "press"
    /\ Feed(action, key, keys, state) # state
    /\ Feed(action, key, keys, state) = keys

\* list(self._hotkeys.values()): the bindings, aliased by the snapshot.
Snapshot(table) ==
    [i \in 1..Len(table) |->
        [norm |-> table[i].norm, keys |-> table[i].keys, dead |-> FALSE, state |-> {}]]

\* A binding of the dispatch snapshot that unregister_hotkey removes from the
\* table lives on in the snapshot, detached, with the matcher state it had.
Detach(snap, table, normalized) ==
    [i \in 1..Len(snap) |->
        IF snap[i].norm = normalized /\ ~snap[i].dead
        THEN [snap[i] EXCEPT !.dead = TRUE,
                             !.state = table[IndexOf(table, normalized, 1)].state]
        ELSE snap[i]]

\* ---------------------------------------------- chord-less manager ----
\* HotkeyManager of src/stream_animate/hotkeys.py: the same calls and key
\* events go to it, step by step, in the specifications that set plain.on.
\* res and fired: the result of its last API call and the callbacks its last
\* step invoked.
NoPlain(on) ==
    [on |-> on, listener |-> "none", hotkeys |-> <<>>, snap |-> <<>>,
     action |-> "none", key |-> "none", res |-> "none", fired |-> <<>>]

Shadow(p) == IF plain.on THEN p ELSE plain

\* A step in which the chord-less manager does nothing.
PlainIdle(p) == [p EXCEPT !.fired = <<>>]

\* stream_animate HotkeyManager._normalize_combination
PlainNormalize(combination) ==
    Lower(Join([i \in 1..Len(Split(combination)) |-> Strip(Split(combination)[i])]))

\* stream_animate HotkeyManager.start
PlainStart(p) ==
    [p EXCEPT !.listener = "L",
              !.res = IF p.listener = "none" THEN "true" ELSE "false",
              !.fired = <<>>]

\* stream_animate HotkeyManager.stop
PlainStop(p) ==
    [p EXCEPT !.listener = "none",
              !.res = IF p.listener = "none" THEN "false" ELSE "true",
              !.fired = <<>>]

\* stream_animate HotkeyManager.register_hotkey: the error raised, or "ok".
PlainRegisterResult(table, combination, callback) ==
    IF combination = <<>> THEN "invalid"
    ELSE IF callback.kind = "none" THEN "invalid"
    ELSE IF IndexOf(table, PlainNormalize(combination), 1) # 0 THEN "duplicate"
    ELSE IF ~ParseOk(combination) THEN "parse_error"
    ELSE "ok"

PlainRegister(p, combination, callback) ==
    LET res == PlainRegisterResult(p.hotkeys, combination, callback)
        binding == [norm |-> PlainNormalize(combination), combination |-> combination,
                    callback |-> callback, keys |-> ParseKeys(combination), state |-> {}]
    IN  [p EXCEPT !.hotkeys = IF res = "ok" THEN Append(@, binding) ELSE @,
                  !.res = res,
                  !.fired = <<>>]

\* stream_animate HotkeyManager.unregister_hotkey
PlainUnregister(p, combination) ==
    LET normalized == PlainNormalize(combination)
        found == IndexOf(p.hotkeys, normalized, 1) # 0
    IN  [p EXCEPT !.hotkeys = SelectSeq(@, LAMBDA b : b.norm # normalized),
                  !.snap = IF found THEN Detach(@, p.hotkeys, normalized) ELSE @,
                  !.res = IF found THEN "true" ELSE "false",
                  !.fired = <<>>]

\* stream_animate HotkeyManager._execute_callback: the result and the
\* callbacks invoked.
PlainExecute(table, normalized) ==
    LET i == IndexOf(table, normalized, 1)
    IN  IF i = 0 THEN [res |-> FALSE, fired |-> <<>>]
        ELSE IF Raises(table[i].callback)
        THEN [res |-> FALSE, fired |-> <<table[i].callback>>]
        ELSE [res |-> TRUE, fired |-> <<table[i].callback>>]

\* stream_animate HotkeyManager.trigger
PlainTrigger(p, combination) ==
    LET r == PlainExecute(p.hotkeys, PlainNormalize(combination))
    IN  [p EXCEPT !.res = IF r.res THEN "true" ELSE "false", !.fired = r.fired]

\* stream_animate HotkeyManager._dispatch, lines 136-141: without a listener
\* the event is dropped, else the bindings are read under the lock.
PlainDispatchBegin(p, action, key) ==
    IF p.listener = "none" \/ p.hotkeys = <<>>
    THEN [p EXCEPT !.fired = <<>>]
    ELSE [p EXCEPT !.snap = Snapshot(p.hotkeys), !.action = action,
                   !.key = Canonical(key), !.fired = <<>>]

\* stream_animate HotkeyManager._dispatch, lines 142-143, one binding.
PlainDispatchFeed(p) ==
    IF p.snap = <<>> THEN [p EXCEPT !.fired = <<>>]
    ELSE LET b == Head(p.snap)
             i == IndexOf(p.hotkeys, b.norm, 1)
             st == IF b.dead THEN b.state ELSE p.hotkeys[i].state
             table == IF b.dead THEN p.hotkeys
                      ELSE [p.hotkeys EXCEPT ![i].state = Feed(p.action, p.key, b.keys, st)]
             r == IF Activates(p.action, p.key, b.keys, st)
                  THEN PlainExecute(table, b.norm)
                  ELSE [res |-> FALSE, fired |-> <<>>]
             done == Tail(p.snap) = <<>>
         IN  [p EXCEPT !.hotkeys = table,
                       !.snap = Tail(@),
                       !.action = IF done THEN "none" ELSE @,
                       !.key = IF done THEN "none" ELSE @,
                       !.fired = r.fired]

\* threading.Timer.cancel() on the timer t: the number of pending timers it
\* takes out (none when t has run out already, or when there is no timer).
CancelledNone(t) == 0

Cancelled(t) == IF t.st = "waiting" THEN 1 ELSE 0

\* ---------------------------------------------------------------- Init --
InitWith(on) ==
    /\ listener = "none"
    /\ hotkeys = <<>>
    /\ activator_combo = None
    /\ arm_timeout_ms = 1500
    /\ suffix_seq_map = EmptyMap
    /\ eng = InitEngine
    /\ expiring = 0
    /\ pcD = "idle"
    /\ dAction = "none"
    /\ dKey = "none"
    /\ dSnap = <<>>
    /\ pcM = "idle"
    /\ cfg = [activator |-> <<>>, timeout_ms |-> 0, seq_map |-> EmptyMap]
    /\ last = NoCall(on)
    /\ ev = NoEvent
    /\ sess = NoSession
    /\ stopped = FALSE
    /\ pending = 0

\* No listener object was created yet, no thread is inside start() or stop().
NoLife ==
    [made |-> 0, held |-> 0, started |-> {}, stop_called |-> {},
     pc |-> [t \in {1, 2} |-> "idle"], id |-> [t \in {1, 2} |-> 0],
     tick |-> 0, op |-> "none", ret |-> "none"]

Init == InitWith(FALSE) /\ life = NoLife /\ plain = NoPlain(FALSE)

\* ------------------------------------------------------- lifecycle -----
\* HotkeyManager.start
start ==
    /\ pcM = "idle"
    /\ listener' = "L"
    /\ stopped' = IF listener = "none" THEN FALSE ELSE stopped
    /\ last' = Log("start", <<>>, IF listener = "none" THEN "true" ELSE "false", <<>>)
    /\ ev' = Quiet(ev)
    /\ plain' = Shadow(PlainStart(plain))
    /\ UNCHANGED <<hotkeys, activator_combo, arm_timeout_ms, suffix_seq_map, eng,
                   expiring, pcD, dAction, dKey, dSnap, pcM, cfg, sess, life, pending>>

\* What stop() does to the chord engine: nothing.
StopEngine(e) == e

\* HotkeyManager.stop
stop ==
    /\ pcM = "idle"
    /\ listener' = "none"
    /\ eng' = StopEngine(eng)
    /\ stopped' = IF listener = "none" THEN stopped ELSE TRUE
    /\ last' = Log("stop", <<>>, IF listener = "none" THEN "false" ELSE "true", <<>>)
    /\ ev' = Quiet(ev)
    /\ plain' = Shadow(PlainStop(plain))
    /\ UNCHANGED <<hotkeys, activator_combo, arm_timeout_ms, suffix_seq_map,
                   expiring, pcD, dAction, dKey, dSnap, pcM, cfg, sess, life, pending>>

\* start() and stop() called from several threads: each call is its block
\* under the lock, then listener.start() / listener.stop() outside the lock.
LifeThreads == {1, 2}

\* A variant of start that makes a listener whether or not one is held.
StartAlwaysCreates(l) == TRUE

\* start, line 78: a listener is made only when none is held.
StartCreates(l) == l = "none"

\* start, lines 77-81.
start_locked(t) ==
    /\ life.pc[t] = "idle"
    /\ IF StartCreates(listener)
       THEN /\ life.made < MaxListeners
            /\ listener' = "L"
            /\ life' = [life EXCEPT !.made = @ + 1, !.held = life.made + 1,
                                    !.pc[t] = "start_run", !.id[t] = life.made + 1,
                                    !.tick = 1 - @, !.op = "start", !.ret = "true"]
       ELSE /\ life' = [life EXCEPT !.tick = 1 - @, !.op = "start", !.ret = "false"]
            /\ UNCHANGED listener
    /\ UNCHANGED <<hotkeys, activator_combo, arm_timeout_ms, suffix_seq_map, eng, expiring,
                   pcD, dAction, dKey, dSnap, pcM, cfg, last, ev, sess, stopped, pending, plain>>

\* start, line 82: listener.start().
start_listener(t) ==
    /\ life.pc[t] = "start_run"
    /\ life' = [life EXCEPT !.started = @ \cup {life.id[t]},
                            !.pc[t] = "idle", !.id[t] = 0]
    /\ UNCHANGED <<listener, hotkeys, activator_combo, arm_timeout_ms, suffix_seq_map, eng,
                   expiring, pcD, dAction, dKey, dSnap, pcM, cfg, last, ev, sess, stopped, pending, plain>>

\* stop, lines 87-91.
stop_locked(t) ==
    /\ life.pc[t] = "idle"
    /\ IF listener # "none"
       THEN /\ listener' = "none"
            /\ life' = [life EXCEPT !.held = 0, !.pc[t] = "stop_run", !.id[t] = life.held,
                                    !.tick = 1 - @, !.op = "stop", !.ret = "true"]
       ELSE /\ life' = [life EXCEPT !.tick = 1 - @, !.op = "stop", !.ret = "false"]
            /\ UNCHANGED listener
    /\ UNCHANGED <<hotkeys, activator_combo, arm_timeout_ms, suffix_seq_map, eng, expiring,
                   pcD, dAction, dKey, dSnap, pcM, cfg, last, ev, sess, stopped, pending, plain>>

\* stop, line 92: listener.stop().
stop_listener(t) ==
    /\ life.pc[t] = "stop_run"
    /\ life' = [life EXCEPT !.stop_called = @ \cup {life.id[t]},
                            !.pc[t] = "idle", !.id[t] = 0]
    /\ UNCHANGED <<listener, hotkeys, activator_combo, arm_timeout_ms, suffix_seq_map, eng,
                   expiring, pcD, dAction, dKey, dSnap, pcM, cfg, last, ev, sess, stopped, pending, plain>>

\* ----------------------------------------------------- registration ----
\* Outcome of register_hotkey on a table: the error it raises, or "ok".
RegisterResult(table, combination, callback) ==
    IF combination = <<>> THEN "invalid"
    ELSE IF callback.kind = "none" THEN "invalid"
    ELSE IF Registered(table, NormalizeCombination(combination)) THEN "duplicate"
    ELSE IF ~ParseOk(combination) THEN "parse_error"
    ELSE "ok"

\* The table register_hotkey leaves.
RegisterTable(table, combination, callback) ==
    IF RegisterResult(table, combination, callback) = "ok"
    THEN Append(table, NewBinding(NormalizeCombination(combination), combination, callback))
    ELSE table

\* HotkeyManager.register_hotkey
register_hotkey(combination, callback) ==
    /\ pcM = "idle"
    /\ hotkeys' = RegisterTable(hotkeys, combination, callback)
    /\ last' = Log("register", combination,
                   RegisterResult(hotkeys, combination, callback), <<>>)
    /\ ev' = Quiet(ev)
    /\ plain' = Shadow(PlainRegister(plain, combination, callback))
    /\ UNCHANGED <<listener, activator_combo, arm_timeout_ms, suffix_seq_map, eng,
                   expiring, pcD, dAction, dKey, dSnap, pcM, cfg, sess, stopped, life, pending>>

\* HotkeyManager.unregister_hotkey
unregister_hotkey(combination) ==
    LET normalized == NormalizeCombination(combination)
        found == Registered(hotkeys, normalized)
    IN  /\ pcM = "idle"
        /\ hotkeys' = Remove(hotkeys, normalized)
        /\ dSnap' = IF found THEN Detach(dSnap, hotkeys, normalized) ELSE dSnap
        /\ last' = Log("unregister", combination, IF found THEN "true" ELSE "false", <<>>)
        /\ ev' = Quiet(ev)
        /\ plain' = Shadow(PlainUnregister(plain, combination))
        /\ UNCHANGED <<listener, activator_combo, arm_timeout_ms, suffix_seq_map, eng,
                       expiring, pcD, dAction, dKey, pcM, cfg, sess, stopped, life, pending>>

\* A variant of _execute_callback that reports a raising callback as a success.
ResultWhenRaisedTrue == TRUE

\* What _execute_callback returns when the bound callback raised.
ResultWhenRaised == FALSE

\* A variant of _execute_callback that invokes no user callback while the
\* engine is Armed.
ExecuteCallbackNotWhenArmed(table, normalized, e) ==
    LET i == IndexOf(table, normalized, 1)
    IN  IF i = 0 THEN [res |-> FALSE, fired |-> <<>>, eng |-> e]
        ELSE IF table[i].callback.kind = "arm"
        THEN [res |-> TRUE, fired |-> <<table[i].callback>>, eng |-> Arm(table[i].callback.ms)]
        ELSE IF e.armed THEN [res |-> FALSE, fired |-> <<>>, eng |-> e]
        ELSE [res |-> ~Raises(table[i].callback), fired |-> <<table[i].callback>>,
              eng |-> e]

\* HotkeyManager._execute_callback: the result, the callbacks invoked, and the
\* chord engine afterwards (the activator's callback arms it).
ExecuteCallback(table, normalized, e) ==
    LET i == IndexOf(table, normalized, 1)
    IN  IF i = 0 THEN [res |-> FALSE, fired |-> <<>>, eng |-> e]
        ELSE IF table[i].callback.kind = "arm"
        THEN [res |-> TRUE, fired |-> <<table[i].callback>>, eng |-> Arm(table[i].callback.ms)]
        ELSE IF Raises(table[i].callback)
        THEN [res |-> ResultWhenRaised, fired |-> <<table[i].callback>>, eng |-> e]
        ELSE [res |-> TRUE, fired |-> <<table[i].callback>>, eng |-> e]

Armed(fired) == \E i \in 1..Len(fired) : fired[i].kind = "arm"

\* HotkeyManager.trigger
trigger(combination) ==
    LET r == ExecuteCallback(hotkeys, NormalizeCombination(combination), eng)
    IN  /\ pcM = "idle"
        /\ eng' = r.eng
        /\ sess' = IF Armed(r.fired) THEN NewSession(FALSE) ELSE sess
        /\ ev' = [(IF Armed(r.fired) /\ pcD # "idle"
                   THEN [Quiet(ev) EXCEPT !.rearmed = TRUE] ELSE Quiet(ev))
                  EXCEPT !.over = Armed(r.fired) /\ eng.armed /\ eng.buffer # <<>>]
        /\ last' = Log("trigger", combination, IF r.res THEN "true" ELSE "false", r.fired)
        /\ pending' = IF Armed(r.fired) THEN pending - Cancelled(eng.arm_timer) + 1 ELSE pending
        /\ plain' = Shadow(PlainTrigger(plain, combination))
        /\ UNCHANGED <<listener, hotkeys, activator_combo, arm_timeout_ms, suffix_seq_map,
                       expiring, pcD, dAction, dKey, dSnap, pcM, cfg, stopped, life>>

\* A variant of the argument checks that lets everything through.
ConfigureRejectsNothing(activator, map) == FALSE

\* configure_chord, lines 118-121, and configure_chord_sequences, lines
\* 140-143: the arguments that raise ValueError.
ConfigureRejects(activator, map) == activator = <<>> \/ DOMAIN map = {}

\* configure_chord_sequences, lines 140-148: argument checks, then the
\* activator is registered like any hotkey, with _arm_cb as its callback.
configure_begin(activator, timeout_ms, seq_map) ==
    LET bad == ConfigureRejects(activator, seq_map)
        res == IF bad THEN "invalid"
               ELSE RegisterResult(hotkeys, activator, ArmCb(timeout_ms))
    IN  /\ pcM = "idle"
        /\ activator_combo' = IF bad THEN activator_combo
                              ELSE NormalizeCombination(activator)
        /\ hotkeys' = IF bad THEN hotkeys
                      ELSE RegisterTable(hotkeys, activator, ArmCb(timeout_ms))
        /\ IF res = "ok"
           THEN /\ pcM' = "cfg"
                /\ cfg' = [activator |-> activator, timeout_ms |-> timeout_ms,
                           seq_map |-> seq_map]
                /\ UNCHANGED last
           ELSE /\ last' = Log("configure", activator, res, <<>>)
                /\ UNCHANGED <<pcM, cfg>>
        /\ ev' = Quiet(ev)
        /\ UNCHANGED <<listener, arm_timeout_ms, suffix_seq_map, eng, expiring,
                       pcD, dAction, dKey, dSnap, sess, stopped, life, pending, plain>>

\* configure_chord, lines 118-129: the same checks and registration for a map
\* from single keys; the map is wrapped into one-token sequences.
configure_chord(activator, timeout_ms, suffix_map) ==
    LET bad == ConfigureRejects(activator, suffix_map)
        res == IF bad THEN "invalid"
               ELSE RegisterResult(hotkeys, activator, ArmCb(timeout_ms))
    IN  /\ pcM = "idle"
        /\ activator_combo' = IF bad THEN activator_combo
                              ELSE NormalizeCombination(activator)
        /\ hotkeys' = IF bad THEN hotkeys
                      ELSE RegisterTable(hotkeys, activator, ArmCb(timeout_ms))
        /\ IF res = "ok"
           THEN /\ pcM' = "cfg"
                /\ cfg' = [activator |-> activator, timeout_ms |-> timeout_ms,
                           seq_map |-> Wrap(suffix_map)]
                /\ UNCHANGED last
           ELSE /\ last' = Log("configure_chord", activator, res, <<>>)
                /\ UNCHANGED <<pcM, cfg>>
        /\ ev' = Quiet(ev)
        /\ UNCHANGED <<listener, arm_timeout_ms, suffix_seq_map, eng, expiring,
                       pcD, dAction, dKey, dSnap, sess, stopped, life, pending, plain>>

\* A variant of the configure calls that disarms the engine.
ConfigureDisarms(e) == Disarm(e)

\* What the configure calls do to the chord engine: nothing.
ConfigureEngine(e) == e

\* configure_chord, lines 130-133, and configure_chord_sequences, lines
\* 149-151: the map and the timeout are replaced under the lock.
configure_finish ==
    /\ pcM = "cfg"
    /\ eng' = ConfigureEngine(eng)
    /\ suffix_seq_map' = cfg.seq_map
    /\ arm_timeout_ms' = Max(100, cfg.timeout_ms)
    /\ pcM' = "idle"
    /\ cfg' = [activator |-> <<>>, timeout_ms |-> 0, seq_map |-> EmptyMap]
    /\ sess' = IF cfg.seq_map # suffix_seq_map
               THEN [sess EXCEPT !.track = Off, !.swapped = sess.open /\ eng.buffer # <<>>]
               ELSE sess
    /\ last' = Log("configure", cfg.activator, "ok", <<>>)
    /\ ev' = Quiet(ev)
    /\ UNCHANGED <<listener, hotkeys, activator_combo, expiring,
                   pcD, dAction, dKey, dSnap, stopped, life, pending, plain>>

\* ----------------------------------------------------------- dispatch --
\* Where _dispatch goes after the feed loop: the chord part is for presses.
AfterFeed(action) == IF action = "press" THEN "chk" ELSE "idle"

\* A variant that never drops an event.
NeverDropped(l) == FALSE

\* _dispatch, lines 200-201: whether the event is dropped.
Dropped(l) == l = "none"

\* _dispatch, lines 197-202: the listener and the bindings are read under
\* the lock; without a listener the event is dropped.
DispatchBegin(action, key) ==
    /\ pcD = "idle"
    /\ IF Dropped(listener)
       THEN /\ ev' = [NoEvent EXCEPT !.dropped = TRUE]
            /\ UNCHANGED <<pcD, dAction, dKey, dSnap>>
       ELSE /\ dSnap' = Snapshot(hotkeys)
            /\ pcD' = IF hotkeys # <<>> THEN "feed" ELSE AfterFeed(action)
            /\ dAction' = IF pcD' = "idle" THEN "none" ELSE action
            /\ dKey' = IF pcD' = "idle" THEN "none" ELSE Canonical(key)
            /\ ev' = IF pcD' = "idle" THEN NoEvent
                     ELSE [NoEvent EXCEPT !.endAtBegin = LastEnd(sess)]
    /\ plain' = Shadow(PlainDispatchBegin(plain, action, key))
    /\ UNCHANGED <<listener, hotkeys, activator_combo, arm_timeout_ms, suffix_seq_map,
                   eng, expiring, pcM, cfg, last, sess, stopped, life, pending>>

UserFired(fired) == SelectSeq(fired, LAMBDA cb : cb.kind = "user")

\* A variant in which _execute_callback keeps the lock while it calls.
LockedLinesWide ==
    (72..73) \cup (77..81) \cup (87..91) \cup (103..110) \cup (130..133)
    \cup (149..151) \cup (155..156) \cup (168..169) \cup (172..184) \cup (197..199)
    \cup (239..249) \cup (252..263)

\* The lines of hotkeys.py inside a `with self._lock:` block.
LockedLines ==
    (72..73) \cup (77..81) \cup (87..91) \cup (103..110) \cup (130..133)
    \cup (149..151) \cup (155..156) \cup (168..169) \cup (172..173) \cup (197..199)
    \cup (239..249) \cup (252..263)

\* The lines of the calls that lead from _dispatch to a user callback: a
\* direct one is called at line 178 of _execute_callback, reached from the
\* feed at line 205; a chord one is called at line 227.
CallChain(site) == IF site = "direct" THEN <<205, 178>> ELSE <<227>>

\* Whether the calling thread is inside a lock block at one of these lines.
LockHeld(chain) == \E k \in 1..Len(chain) : chain[k] \in LockedLines

Via(fired, how) ==
    [i \in 1..Len(fired) |->
        [cb |-> fired[i], via |-> how, locked |-> LockHeld(CallChain(how))]]

\* _dispatch, lines 204-205, one binding of the snapshot: the event is fed to
\* its matcher; a matcher that activates runs _execute_callback.
DispatchFeed ==
    LET b == Head(dSnap)
        i == IndexOf(hotkeys, b.norm, 1)
        st == IF b.dead THEN b.state ELSE hotkeys[i].state
        table == IF b.dead THEN hotkeys
                 ELSE [hotkeys EXCEPT ![i].state = Feed(dAction, dKey, b.keys, st)]
        r == IF Activates(dAction, dKey, b.keys, st)
             THEN ExecuteCallback(table, b.norm, eng)
             ELSE [res |-> FALSE, fired |-> <<>>, eng |-> eng]
        last_one == Tail(dSnap) = <<>> /\ AfterFeed(dAction) = "idle"
        escaped == \E k \in 1..Len(r.fired) : Escapes("direct", r.fired[k])
    IN  /\ pcD = "feed"
        /\ hotkeys' = table
        /\ eng' = r.eng
        /\ dSnap' = IF escaped THEN <<>> ELSE Tail(dSnap)
        /\ pcD' = IF escaped THEN "dead"
                  ELSE IF Tail(dSnap) # <<>> THEN "feed" ELSE AfterFeed(dAction)
        /\ dAction' = IF last_one THEN "none" ELSE dAction
        /\ dKey' = IF last_one THEN "none" ELSE dKey
        /\ ev' = IF last_one
                 THEN [NoEvent EXCEPT !.fired = Via(UserFired(r.fired), "direct")]
                 ELSE [ev EXCEPT !.fired = Via(UserFired(r.fired), "direct"),
                                 !.dropped = FALSE,
                                 !.armedHere = @ \/ Armed(r.fired),
                                 !.rearmed = @ \/ Armed(r.fired),
                                 !.direct = @ \/ (/\ UserFired(r.fired) # <<>>
                                                  /\ eng.armed /\ ~eng.ignore_next),
                                 !.untokened = FALSE,
                                 !.swallowed = FALSE,
                                 !.over = Armed(r.fired) /\ eng.armed /\ eng.buffer # <<>>,
                                 !.orphan = /\ Activates(dAction, dKey, b.keys, st)
                                            /\ ~Registered(hotkeys, b.norm)]
        /\ sess' = IF Armed(r.fired) THEN NewSession(TRUE) ELSE sess
        /\ pending' = IF Armed(r.fired) THEN pending - Cancelled(eng.arm_timer) + 1 ELSE pending
        /\ plain' = Shadow(PlainDispatchFeed(plain))
        /\ UNCHANGED <<listener, activator_combo, arm_timeout_ms, suffix_seq_map,
                       expiring, pcM, cfg, last, stopped, life>>

\* A variant that runs the chord part without looking at self._armed.
ChordPartAlways(e) == TRUE

\* _dispatch, line 208: whether the chord part runs, read outside the lock.
ChordPartRuns(e) == e.armed

\* _dispatch, line 208.
DispatchCheckArmed ==
    /\ pcD = "chk"
    /\ pcD' = IF ChordPartRuns(eng) THEN "chord" ELSE "idle"
    /\ dAction' = IF ChordPartRuns(eng) THEN dAction ELSE "none"
    /\ dKey' = IF ChordPartRuns(eng) THEN dKey ELSE "none"
    /\ sess' = IF ChordPartRuns(eng) THEN sess ELSE Typed(sess, ev, dKey, suffix_seq_map)
    /\ ev' = IF ChordPartRuns(eng) THEN Quiet(ev) ELSE NoEvent
    /\ plain' = Shadow(PlainIdle(plain))
    /\ UNCHANGED <<listener, hotkeys, activator_combo, arm_timeout_ms, suffix_seq_map,
                   eng, expiring, dSnap, pcM, cfg, last, stopped, life, pending>>

\* A variant of the chord part without the ignore-next test: the press that
\* armed the engine is taken as a token.
ChordStepNoAbsorb(e, map, token) ==
    LET seq == Append(e.buffer, token)
    IN  IF token = NoToken
        THEN [eng |-> e, fired |-> <<>>, end |-> "none"]
        ELSE IF token = "esc"
        THEN [eng |-> Disarm(e), fired |-> <<>>, end |-> "esc"]
        ELSE IF seq \in DOMAIN map
        THEN [eng |-> Disarm([e EXCEPT !.buffer = seq]), fired |-> <<map[seq]>>,
              end |-> "match"]
        ELSE IF PrefixOfAny(seq, map)
        THEN [eng |-> [e EXCEPT !.buffer = seq], fired |-> <<>>, end |-> "none"]
        ELSE [eng |-> Disarm([e EXCEPT !.buffer = seq]), fired |-> <<>>, end |-> "nonprefix"]

\* A variant of the chord part that starts the timer again on a prefix key.
ChordStepRestartsTimer(e, map, token) ==
    LET seq == Append(e.buffer, token)
    IN  IF e.ignore_next
        THEN [eng |-> [e EXCEPT !.ignore_next = FALSE], fired |-> <<>>, end |-> "none"]
        ELSE IF token = NoToken
        THEN [eng |-> e, fired |-> <<>>, end |-> "none"]
        ELSE IF token = "esc"
        THEN [eng |-> Disarm(e), fired |-> <<>>, end |-> "esc"]
        ELSE IF seq \in DOMAIN map
        THEN [eng |-> Disarm([e EXCEPT !.buffer = seq]), fired |-> <<map[seq]>>,
              end |-> "match"]
        ELSE IF PrefixOfAny(seq, map)
        THEN [eng |-> [e EXCEPT !.buffer = seq, !.arm_timer.st = "waiting"],
              fired |-> <<>>, end |-> "none"]
        ELSE [eng |-> Disarm([e EXCEPT !.buffer = seq]), fired |-> <<>>, end |-> "nonprefix"]

\* A variant of the chord part that waits for a longer sequence before it
\* looks for an exact match.
ChordStepPrefixFirst(e, map, token) ==
    LET seq == Append(e.buffer, token)
    IN  IF e.ignore_next
        THEN [eng |-> [e EXCEPT !.ignore_next = FALSE], fired |-> <<>>, end |-> "none"]
        ELSE IF token = NoToken
        THEN [eng |-> e, fired |-> <<>>, end |-> "none"]
        ELSE IF token = "esc"
        THEN [eng |-> Disarm(e), fired |-> <<>>, end |-> "esc"]
        ELSE IF \E s \in DOMAIN map : s # seq /\ IsPrefixOf(seq, s)
        THEN [eng |-> [e EXCEPT !.buffer = seq], fired |-> <<>>, end |-> "none"]
        ELSE IF seq \in DOMAIN map
        THEN [eng |-> Disarm([e EXCEPT !.buffer = seq]), fired |-> <<map[seq]>>,
              end |-> "match"]
        ELSE [eng |-> Disarm([e EXCEPT !.buffer = seq]), fired |-> <<>>, end |-> "nonprefix"]

\* A variant of the chord part that keeps waiting after a key that matches
\* nothing, instead of disarming.
ChordStepKeepsWaiting(e, map, token) ==
    LET seq == Append(e.buffer, token)
    IN  IF e.ignore_next
        THEN [eng |-> [e EXCEPT !.ignore_next = FALSE], fired |-> <<>>, end |-> "none"]
        ELSE IF token = NoToken
        THEN [eng |-> e, fired |-> <<>>, end |-> "none"]
        ELSE IF token = "esc"
        THEN [eng |-> Disarm(e), fired |-> <<>>, end |-> "esc"]
        ELSE IF seq \in DOMAIN map
        THEN [eng |-> Disarm([e EXCEPT !.buffer = seq]), fired |-> <<map[seq]>>,
              end |-> "match"]
        ELSE [eng |-> e, fired |-> <<>>, end |-> "none"]

\* _dispatch, lines 210-236 for one press while armed: the engine afterwards,
\* the chord callback invoked (if any) and what ended the session (if anything).
ChordStep(e, map, token) ==
    LET seq == Append(e.buffer, token)
    IN  IF e.ignore_next
        THEN [eng |-> [e EXCEPT !.ignore_next = FALSE], fired |-> <<>>, end |-> "none"]
        ELSE IF token = NoToken
        THEN [eng |-> e, fired |-> <<>>, end |-> "none"]
        ELSE IF token = "esc"
        THEN [eng |-> Disarm(e), fired |-> <<>>, end |-> "esc"]
        ELSE IF seq \in DOMAIN map
        THEN [eng |-> Disarm([e EXCEPT !.buffer = seq]), fired |-> <<map[seq]>>,
              end |-> "match"]
        ELSE IF PrefixOfAny(seq, map)
        THEN [eng |-> [e EXCEPT !.buffer = seq], fired |-> <<>>, end |-> "none"]
        ELSE [eng |-> Disarm([e EXCEPT !.buffer = seq]), fired |-> <<>>, end |-> "nonprefix"]

\* _dispatch, lines 210-236.
DispatchChord ==
    LET r == ChordStep(eng, suffix_seq_map, KeyToToken(dKey))
        typed == Typed(sess, ev, dKey, suffix_seq_map)
    IN  /\ pcD = "chord"
        /\ eng' = r.eng
        /\ pcD' = IF \E k \in 1..Len(r.fired) : Escapes("chord", r.fired[k])
                  THEN "dead" ELSE "idle"
        /\ dAction' = "none"
        /\ dKey' = "none"
        /\ ev' = [NoEvent EXCEPT !.fired = Via(r.fired, "chord"),
                                  !.direct = ev.direct,
                                  !.untokened = /\ eng.armed /\ ~eng.ignore_next
                                                /\ eng.buffer # <<>>
                                                /\ dKey \notin {"a", "g", "h", "<esc>"},
                                  !.swallowed = /\ eng.ignore_next
                                                /\ ~ev.armedHere /\ ~ev.rearmed
                                                /\ dKey \in {"g", "h"}]
        /\ sess' = IF r.end = "none" \/ (r.end # "match" /\ ~eng.armed) THEN typed
                   ELSE [EndSession(typed, r.end) EXCEPT !.calls = Cap(@ \o r.fired, 2)]
        /\ pending' = IF r.end # "none" THEN pending - Cancelled(eng.arm_timer) ELSE pending
        /\ UNCHANGED <<listener, hotkeys, activator_combo, arm_timeout_ms, suffix_seq_map,
                       expiring, dSnap, pcM, cfg, last, stopped, life, plain>>

\* -------------------------------------------------------------- timer ---
\* threading.Timer.run: the wait ends without a cancel; the thread goes on to
\* call _disarm.
TimerFire ==
    /\ eng.arm_timer.st = "waiting"
    /\ expiring < MaxExpiring
    /\ eng' = [eng EXCEPT !.arm_timer.st = "fired"]
    /\ expiring' = expiring + 1
    /\ ev' = Quiet(ev)
    /\ pending' = pending - 1
    /\ UNCHANGED <<listener, hotkeys, activator_combo, arm_timeout_ms, suffix_seq_map,
                   pcD, dAction, dKey, dSnap, pcM, cfg, last, sess, stopped, life, plain>>

\* _disarm run by a timer thread.
TimerDisarm ==
    /\ expiring > 0
    /\ eng' = Disarm(eng)
    /\ expiring' = expiring - 1
    /\ sess' = IF eng.armed THEN [EndSession(sess, "timeout") EXCEPT !.track = Off]
               ELSE [sess EXCEPT !.track = Off]
    /\ ev' = Quiet(ev)
    /\ pending' = pending - Cancelled(eng.arm_timer)
    /\ UNCHANGED <<listener, hotkeys, activator_combo, arm_timeout_ms, suffix_seq_map,
                   pcD, dAction, dKey, dSnap, pcM, cfg, last, stopped, life, plain>>

\* ------------------------------------------------------ specification ---
\* Spec: the three threads, one activator, one direct binding (its callback
\* raises), chord callbacks that return and one that raises.
Combos == {CombA, CombG}
Timeouts == {500}
SeqMaps == {SeqMapGH, SeqMapNested}

Next ==
    \/ start
    \/ stop
    \/ register_hotkey(CombG, UserCb("cbBoom"))
    \/ \E c \in Combos : unregister_hotkey(c)
    \/ \E c \in Combos : trigger(c)
    \/ \E t \in Timeouts, m \in SeqMaps : configure_begin(CombA, t, m)
    \/ configure_finish
    \/ \E a \in {"press", "release"}, k \in RawKeys : DispatchBegin(a, k)
    \/ DispatchFeed
    \/ DispatchCheckArmed
    \/ DispatchChord
    \/ TimerFire
    \/ TimerDisarm

Spec == Init /\ [][Next]_vars

\* SpecApi: the registration API on its own, with case, blank and order
\* variants of the combinations, and the API history kept.
ApiCombos == {CombA, CombAVariant, CombG, CombAG, CombGA, CombEmpty}
ApiCallbacks == {UserCb("cb1"), UserCb("cbBoom")}

InitApi == InitWith(TRUE) /\ life = NoLife /\ plain = NoPlain(FALSE)

NextApi ==
    \/ start
    \/ stop
    \/ \E c \in ApiCombos, cb \in ApiCallbacks : register_hotkey(c, cb)
    \/ \E c \in ApiCombos : unregister_hotkey(c)
    \/ \E c \in ApiCombos : trigger(c)
    \/ \E a \in {CombA, CombAVariant}, m \in {SeqMapGH, EmptyMap} : configure_begin(a, 500, m)
    \/ configure_finish
    \/ TimerFire
    \/ TimerDisarm

SpecApi == InitApi /\ [][NextApi]_vars

\* SpecCfg: the chord configuration API: two activators, valid and invalid
\* arguments, one direct binding, the API history kept.
CfgActivators == {CombA, CombAVariant, CombG, CombEmpty}
CfgSeqMaps == {SeqMapGH, SeqMapNested, EmptyMap}
CfgSuffixMaps == {SuffixMapH, EmptySuffixMap}

NextCfg ==
    \/ \E c \in {CombG, CombEmpty}, cb \in {UserCb("cb1"), NotCallable} : register_hotkey(c, cb)
    \/ \E c \in {CombA, CombG} : unregister_hotkey(c)
    \/ \E c \in {CombA, CombAVariant, CombG} : trigger(c)
    \/ \E a \in CfgActivators, m \in CfgSeqMaps : configure_begin(a, 500, m)
    \/ \E a \in CfgActivators, m \in CfgSuffixMaps : configure_chord(a, 500, m)
    \/ configure_finish
    \/ TimerFire
    \/ TimerDisarm

SpecCfg == InitApi /\ [][NextCfg]_vars

\* SpecLive: one chord configuration, key events and the timer; every timer
\* that was started and not cancelled runs out, and a timer thread that has
\* run out gets the lock.
NextLive ==
    \/ start
    \/ configure_begin(CombA, 500, SeqMapGH)
    \/ configure_finish
    \/ trigger(CombA)
    \/ \E a \in {"press", "release"}, k \in {"a", "g", "<esc>"} : DispatchBegin(a, k)
    \/ DispatchFeed
    \/ DispatchCheckArmed
    \/ DispatchChord
    \/ TimerFire
    \/ TimerDisarm

SpecLive == Init /\ [][NextLive]_vars /\ WF_vars(TimerFire) /\ WF_vars(TimerDisarm)

\* SpecEq: no activator is ever configured; every call and every key event
\* goes to the chord-capable and to the chord-less manager.
EqCombos == {CombG, CombA, CombAVariant, CombEmpty}
EqCallbacks == {UserCb("cb1"), UserCb("cbBoom")}

InitEq == InitWith(TRUE) /\ life = NoLife /\ plain = NoPlain(TRUE)

NextEq ==
    \/ start
    \/ stop
    \/ \E c \in EqCombos, cb \in EqCallbacks : register_hotkey(c, cb)
    \/ \E c \in {CombG, CombA} : unregister_hotkey(c)
    \/ \E c \in {CombG, CombA, CombAVariant} : trigger(c)
    \/ \E a \in {"press", "release"}, k \in {"a", "G"} : DispatchBegin(a, k)
    \/ DispatchFeed
    \/ DispatchCheckArmed

SpecEq == InitEq /\ [][NextEq]_vars

\* SpecMs: configure calls with timeouts below, at and above 100 ms, the
\* activators invoked through trigger, and the timer.
MsTimeouts == {-50, 0, 99, 100, 500}

NextMs ==
    \/ \E t \in MsTimeouts : configure_begin(CombA, t, SeqMapGH)
    \/ \E t \in MsTimeouts : configure_chord(CombG, t, SuffixMapH)
    \/ configure_finish
    \/ \E c \in {CombA, CombG} : unregister_hotkey(c)
    \/ \E c \in {CombA, CombG} : trigger(c)
    \/ TimerFire
    \/ TimerDisarm

SpecMs == InitApi /\ [][NextMs]_vars

\* SpecLife: two threads calling start() and stop() on one manager.
NextLife ==
    \E t \in LifeThreads :
        \/ start_locked(t)
        \/ start_listener(t)
        \/ stop_locked(t)
        \/ stop_listener(t)

SpecLife == Init /\ [][NextLife]_vars

\* ============================================================== claims ==
NoChord(fired) == \A i \in 1..Len(fired) : fired[i].via # "chord"

Keys(table) == {table[i].norm : i \in 1..Len(table)}

\* The normal form of each combination of ApiCombos, written out.
ExpectedNorm ==
    (CombA :> <<"a">>) @@ (CombAVariant :> <<"a">>) @@ (CombG :> <<"g">>)
    @@ (CombAG :> <<"a", "+", "g">>) @@ (CombGA :> <<"g", "+", "a">>)
    @@ (CombEmpty :> <<>>)

\* C1: once a press has armed the engine, pressing the tokens of a registered
\* sequence S (no other registered sequence a strict prefix of S) in order,
\* with no timer expiry in between, invokes S's callback exactly once and no
\* other chord callback, and leaves the engine Disarmed with an empty buffer.
C1_SequenceFiresOnce ==
    (/\ pcD = "idle"
     /\ sess.track \in DOMAIN suffix_seq_map
     /\ \A s \in DOMAIN suffix_seq_map : s # sess.track => ~IsPrefixOf(s, sess.track))
    => (/\ sess.calls = <<suffix_seq_map[sess.track]>>
        /\ ~eng.armed
        /\ eng.buffer = <<>>)

C1_Witness ==
    /\ pcD = "idle"
    /\ suffix_seq_map = SeqMapGH
    /\ sess.track = <<"g", "h">>
    /\ sess.calls = <<UserCb("cbA")>>

\* C2: a timer expiry leaves the engine Disarmed with an empty buffer and
\* invokes no callback; a key event delivered after an expiry that ended the
\* session invokes no chord callback unless the engine is armed again.
C2_TimeoutDisarms ==
    [][/\ expiring' < expiring =>
            /\ ~eng'.armed /\ eng'.buffer = <<>> /\ ~eng'.ignore_next
            /\ ev'.fired = <<>> /\ sess'.calls = sess.calls
       /\ (pcD # "idle" /\ ev.endAtBegin = "timeout" /\ ~ev.rearmed) =>
            /\ NoChord(ev'.fired) /\ sess'.calls = sess.calls]_vars

C2_Witness ==
    /\ pcD = "chk"
    /\ ev.endAtBegin = "timeout"
    /\ ~ev.rearmed
    /\ dKey = "h"
    /\ suffix_seq_map = SeqMapGH

\* C3: while Armed, a press whose token makes the buffer neither a registered
\* sequence nor a prefix of one disarms the engine with no callback; key
\* events delivered afterwards invoke no chord callback unless it is armed again.
C3_NonPrefixDisarms ==
    [][/\ (/\ pcD = "chord" /\ pcD' = "idle" /\ ~eng.ignore_next
           /\ KeyToToken(dKey) \notin {NoToken, "esc"}
           /\ \A s \in DOMAIN suffix_seq_map :
                 ~IsPrefixOf(Append(eng.buffer, KeyToToken(dKey)), s)) =>
            /\ ~eng'.armed /\ eng'.buffer = <<>> /\ ev'.fired = <<>>
            /\ sess'.calls = sess.calls
       /\ (pcD # "idle" /\ ev.endAtBegin = "nonprefix" /\ ~ev.rearmed) =>
            /\ NoChord(ev'.fired) /\ sess'.calls = sess.calls]_vars

C3_Witness ==
    /\ pcD = "chk"
    /\ ev.endAtBegin = "nonprefix"
    /\ ~ev.rearmed
    /\ dKey = "h"
    /\ suffix_seq_map = SeqMapGH

\* C4: while Armed with the activator's own press absorbed, a press of esc
\* disarms the engine, invokes no callback and empties the buffer; whenever
\* the engine is armed, the session starts with an empty buffer.
C4_EscCancels ==
    [][/\ (pcD = "chord" /\ pcD' = "idle" /\ dKey = "<esc>" /\ ~eng.ignore_next) =>
            /\ ~eng'.armed /\ eng'.buffer = <<>> /\ ev'.fired = <<>>
            /\ sess'.calls = sess.calls
       /\ (sess' # sess /\ sess'.open /\ sess'.ends = <<>> /\ sess'.calls = <<>>
           /\ eng'.ignore_next) => eng'.buffer = <<>>]_vars

C4_Witness ==
    /\ pcD = "idle"
    /\ sess.ends = <<"esc">>
    /\ ~eng.armed
    /\ eng.buffer = <<>>

\* C5: every armed session is ended by exactly one of exact match, timeout,
\* esc and non-prefix key, and invokes at most one chord callback.
C5_OneTermination ==
    /\ Len(sess.ends) <= 1
    /\ Len(sess.calls) <= 1
    /\ sess.open <=> eng.armed

\* C6: while stopped, a raw key event is dropped: it starts no dispatch,
\* invokes no callback and leaves the binding table and the chord engine as
\* they are.
C6_StoppedDropsEvents ==
    [][(stopped /\ pcD = "idle") =>
            /\ pcD' = "idle"
            /\ ev'.dropped =>
                  /\ hotkeys' = hotkeys /\ eng' = eng /\ ev'.fired = <<>>
                  /\ suffix_seq_map' = suffix_seq_map /\ listener' = listener]_vars

C6_Witness == stopped /\ ev.dropped /\ hotkeys # <<>> /\ eng.armed

\* C7: once stop() has returned, no dispatch invokes a callback any more.
C7_NoCallbackAfterStop == stopped => ev.fired = <<>>

\* C8: when stop() returns the engine is Disarmed: not armed, empty buffer,
\* no pending timer.
C8_StopDisarms ==
    [][(~stopped /\ stopped') =>
            ~eng'.armed /\ eng'.buffer = <<>> /\ eng'.arm_timer.st = "none"]_vars

\* C9: register_hotkey raises the duplicate error exactly when the normal
\* form of the combination is a key of the table, and then leaves the table
\* as it is; a well-formed combination whose normal form is new is added.
C9_DuplicateRegistration ==
    [][(last'.seq # last.seq /\ last'.op = "register") =>
            /\ last'.res = "duplicate" <=>
                  (last'.comb # <<>> /\ ExpectedNorm[last'.comb] \in Keys(hotkeys))
            /\ last'.res # "ok" => hotkeys' = hotkeys
            /\ last'.res = "ok" =>
                  /\ Len(hotkeys') = Len(hotkeys) + 1
                  /\ SubSeq(hotkeys', 1, Len(hotkeys)) = hotkeys
                  /\ hotkeys'[Len(hotkeys')].norm = ExpectedNorm[last'.comb]
                  /\ hotkeys'[Len(hotkeys')].callback \in ApiCallbacks
            /\ (last'.comb \in {CombA, CombG, CombAG} /\ last'.res # "duplicate")
                  => last'.res = "ok"]_vars

C9_Witness ==
    /\ last.op = "register"
    /\ last.comb = CombAVariant
    /\ last.res = "duplicate"
    /\ Keys(hotkeys) = {<<"a">>, <<"g">>}

\* The callback bound to the normal form of comb in table.
Bound(table, comb) ==
    IF ExpectedNorm[comb] \in Keys(table)
    THEN table[CHOOSE i \in 1..Len(table) : table[i].norm = ExpectedNorm[comb]].callback
    ELSE UserCb("unbound")

\* C10 as claimed: trigger returns true iff the normal form is registered,
\* whatever the callback does.
C10_TriggerAsClaimed ==
    [][(last'.seq # last.seq /\ last'.op = "trigger") =>
            /\ last'.res = "true" <=> ExpectedNorm[last'.comb] \in Keys(hotkeys)
            /\ ExpectedNorm[last'.comb] \in Keys(hotkeys) =>
                  last'.fired = <<Bound(hotkeys, last'.comb)>>
            /\ ExpectedNorm[last'.comb] \notin Keys(hotkeys) => last'.fired = <<>>]_vars

\* C10, amended: trigger returns true iff the normal form is registered and
\* the bound callback does not raise; a registered callback is invoked exactly
\* once, and nothing is invoked when the form is not registered.
C10_Trigger ==
    [][(last'.seq # last.seq /\ last'.op = "trigger") =>
            /\ last'.res = "true" <=>
                  /\ ExpectedNorm[last'.comb] \in Keys(hotkeys)
                  /\ Bound(hotkeys, last'.comb).name # "cbBoom"
            /\ ExpectedNorm[last'.comb] \in Keys(hotkeys) =>
                  last'.fired = <<Bound(hotkeys, last'.comb)>>
            /\ ExpectedNorm[last'.comb] \notin Keys(hotkeys) => last'.fired = <<>>
            /\ hotkeys' = hotkeys]_vars

C10_Witness ==
    /\ last.op = "trigger"
    /\ last.comb = CombAVariant
    /\ last.res = "false"
    /\ last.fired = <<UserCb("cbBoom")>>

\* C11: unregister_hotkey returns true exactly when the normal form of the
\* combination is a key of the table, and then removes that binding and no
\* other; otherwise it returns false and changes nothing.  Right after an
\* unregister that returned true, unregister and trigger of the same
\* combination return false.
C11_Unregister ==
    [][/\ (last'.seq # last.seq /\ last'.op = "unregister") =>
            /\ last'.res = "true" <=> ExpectedNorm[last'.comb] \in Keys(hotkeys)
            /\ last'.res = "true" =>
                  /\ Keys(hotkeys') = Keys(hotkeys) \ {ExpectedNorm[last'.comb]}
                  /\ Len(hotkeys') = Len(hotkeys) - 1
                  /\ hotkeys' = SelectSeq(hotkeys,
                                    LAMBDA b : b.norm # ExpectedNorm[last'.comb])
            /\ last'.res = "false" => hotkeys' = hotkeys
            /\ <<listener, activator_combo, arm_timeout_ms, suffix_seq_map, eng>>' =
                  <<listener, activator_combo, arm_timeout_ms, suffix_seq_map, eng>>
       /\ (/\ last.op = "unregister" /\ last.res = "true"
           /\ last'.seq # last.seq /\ last'.comb = last.comb
           /\ last'.op \in {"unregister", "trigger"}) =>
            /\ last'.res = "false"
            /\ last'.fired = <<>>]_vars

C11_Witness ==
    /\ last.op = "unregister"
    /\ last.comb = CombAVariant
    /\ last.res = "true"
    /\ Keys(hotkeys) = {<<"g">>}

\* Every listener made is the one held, or was handed to a stop() call.
NoStrayListener(l) ==
    \A i \in 1..l.made :
        \/ i = l.held
        \/ i \in l.stop_called
        \/ \E t \in LifeThreads : l.pc[t] = "stop_run" /\ l.id[t] = i

\* C12: start() returns true and makes (and starts, once) exactly one listener
\* iff none is held, else returns false and makes nothing; stop() returns true
\* and stops the held listener iff one is held, else returns false; at most
\* one listener is held, whatever two threads calling start() and stop() do.
C12_Lifecycle ==
    [][/\ (life'.tick # life.tick /\ life'.op = "start") =>
            /\ life'.ret = "true" <=> listener = "none"
            /\ life'.ret = "true" =>
                  /\ life'.made = life.made + 1
                  /\ life'.held = life'.made
                  /\ listener' = "L"
                  /\ \E t \in LifeThreads :
                        life'.pc[t] = "start_run" /\ life'.id[t] = life'.made
            /\ life'.ret = "false" =>
                  /\ life'.made = life.made /\ life'.held = life.held
                  /\ listener' = listener /\ life'.pc = life.pc
       /\ (life'.tick # life.tick /\ life'.op = "stop") =>
            /\ life'.ret = "true" <=> listener # "none"
            /\ life'.ret = "true" =>
                  /\ listener' = "none" /\ life'.held = 0 /\ life'.made = life.made
                  /\ \E t \in LifeThreads :
                        life'.pc[t] = "stop_run" /\ life'.id[t] = life.held
            /\ life'.ret = "false" =>
                  /\ listener' = listener /\ life'.pc = life.pc /\ life'.made = life.made
       /\ \A t \in LifeThreads :
            (life.pc[t] = "start_run" /\ life'.pc[t] = "idle") =>
                life.id[t] \notin life.started /\ life.id[t] \in life'.started
       /\ (life'.held = 0) <=> (listener' = "none")
       /\ NoStrayListener(life')]_vars

C12_Witness ==
    /\ life.pc[1] = "start_run"
    /\ life.pc[2] = "idle"
    /\ life.op = "start"
    /\ life.ret = "false"
    /\ life.made = 1
    /\ life.held = 1

\* C13 as claimed: with a chord configuration in place and the engine
\* Disarmed, configure_chord_sequences with the same activator never ends in
\* the duplicate error.
C13_ReconfigureSucceeds ==
    [][(/\ last'.seq # last.seq /\ last'.op = "configure" /\ pcM = "idle"
        /\ ~eng.armed
        /\ activator_combo = ExpectedNorm[last'.comb]
        /\ \E i \in 1..Len(hotkeys) :
              hotkeys[i].norm = activator_combo /\ hotkeys[i].callback.kind = "arm")
       => last'.res # "duplicate"]_vars

\* C14 as claimed: with two activator bindings in the table, invoking the
\* one configured first does not arm the engine.
C14_OneActivator ==
    [][(/\ last'.seq # last.seq /\ last'.op = "trigger"
        /\ \E i, j \in 1..Len(hotkeys) :
              /\ i < j
              /\ hotkeys[i].norm = ExpectedNorm[last'.comb]
              /\ hotkeys[i].callback.kind = "arm"
              /\ hotkeys[j].callback.kind = "arm")
       => (eng' = eng /\ ~Armed(last'.fired))]_vars

\* A raising callback was invoked at site how by the step just taken.
RaisedIn(fired, how) ==
    \E k \in 1..Len(fired) : fired[k].via = how /\ Raises(fired[k].cb)

\* The bindings of a table without their matcher state.
Bindings(table) ==
    [i \in 1..Len(table) |-> <<table[i].norm, table[i].combination, table[i].callback>>]

\* C15: a callback that raises during dispatch does not end the dispatch: the
\* listener thread lives on, the rest of the snapshot is still fed, the
\* bindings stay as they are, and a raising chord callback leaves the engine
\* Disarmed with an empty buffer.
C15_RaisingCallbackIsolated ==
    [][/\ pcD' # "dead"
       /\ (/\ pcD = "feed"
           /\ pcD' # "feed" \/ Len(dSnap') # Len(dSnap)
           /\ RaisedIn(ev'.fired, "direct")) =>
            /\ dSnap' = Tail(dSnap)
            /\ pcD' = IF Tail(dSnap) # <<>> THEN "feed"
                      ELSE IF dAction = "press" THEN "chk" ELSE "idle"
            /\ Bindings(hotkeys') = Bindings(hotkeys)
       /\ (pcD = "chord" /\ pcD' # "chord" /\ RaisedIn(ev'.fired, "chord")) =>
            /\ pcD' = "idle"
            /\ ~eng'.armed /\ eng'.buffer = <<>> /\ ~eng'.ignore_next
            /\ hotkeys' = hotkeys]_vars

C15_Witness ==
    /\ pcD = "feed"
    /\ dSnap # <<>>
    /\ RaisedIn(ev.fired, "direct")
    /\ Len(hotkeys) = 2

\* C16: register_hotkey with an empty combination or a callback that is not
\* callable, and configure_chord / configure_chord_sequences with an empty
\* activator or an empty map, are rejected as invalid; a rejected call leaves
\* the binding table, the sequence map, the timeout, the recorded activator
\* and the engine as they were.
C16_InvalidArgumentsRejected ==
    [][/\ (last'.seq # last.seq
           /\ last'.op \in {"register", "configure", "configure_chord"}) =>
            /\ last'.comb = <<>> => last'.res = "invalid"
            /\ last'.res = "invalid" =>
                  <<hotkeys, suffix_seq_map, arm_timeout_ms, activator_combo, eng>>' =
                  <<hotkeys, suffix_seq_map, arm_timeout_ms, activator_combo, eng>>
       /\ \A i \in 1..Len(hotkeys') :
            hotkeys'[i].callback.kind # "none" /\ hotkeys'[i].norm # <<>>
       /\ (pcM' = "cfg" \/ suffix_seq_map' # suffix_seq_map) =>
            /\ DOMAIN cfg'.seq_map # {} \/ pcM' = "idle"
            /\ suffix_seq_map' # suffix_seq_map => DOMAIN suffix_seq_map' # {}
       /\ \A c \in {CombA, CombG, CombEmpty} :
            /\ RegisterResult(hotkeys', c, NotCallable) = "invalid"
            /\ RegisterTable(hotkeys', c, NotCallable) = hotkeys'
            /\ RegisterResult(hotkeys', CombEmpty, UserCb("cb1")) = "invalid"
            /\ ConfigureRejects(c, EmptyMap) /\ ConfigureRejects(c, EmptySuffixMap)
            /\ ConfigureRejects(CombEmpty, SeqMapGH) /\ ConfigureRejects(CombEmpty, SuffixMapH)]_vars

C16_Witness ==
    /\ last.op = "configure_chord"
    /\ last.res = "invalid"
    /\ last.comb = CombA
    /\ activator_combo = <<"g">>
    /\ suffix_seq_map = SeqMapNested
    /\ Len(hotkeys) = 1
    /\ eng.armed

\* The engine right after _arm.
JustArmed(e) ==
    /\ e.armed /\ e.ignore_next /\ e.buffer = <<>>
    /\ e.arm_timer.st = "waiting"

\* C17: while the binding that configure_chord_sequences(A, ...) made is in
\* the table, registered_combinations() contains A, register_hotkey with a
\* case or blank variant of A is a duplicate, trigger of A or a variant arms
\* the engine, and so does the key press that completes A.
C17_ActivatorIsBinding ==
    [][/\ (pcM = "cfg" /\ pcM' = "idle") =>
            \E k \in 1..Len(RegisteredCombinations') :
                RegisteredCombinations'[k] = cfg.activator
       /\ (hotkeys' # hotkeys /\ Bindings(hotkeys') # Bindings(hotkeys)) =>
            \A i \in 1..Len(hotkeys') :
                hotkeys'[i].callback.kind = "arm" =>
                    /\ hotkeys'[i].norm = <<"a">>
                    /\ RegisteredCombinations'[i] = CombA
                    /\ \A c \in {CombA, CombAVariant} :
                          LET r == ExecuteCallback(hotkeys', NormalizeCombination(c), eng')
                          IN  /\ RegisterResult(hotkeys', c, UserCb("cb1")) = "duplicate"
                              /\ r.res
                              /\ JustArmed(r.eng)
       /\ (/\ pcD = "feed"
           /\ pcD' # "feed" \/ Len(dSnap') # Len(dSnap)
           /\ dAction = "press" /\ dKey = "a"
           /\ Head(dSnap).norm = <<"a">> /\ ~Head(dSnap).dead
           /\ \E i \in 1..Len(hotkeys) :
                 /\ hotkeys[i].norm = <<"a">>
                 /\ hotkeys[i].callback.kind = "arm"
                 /\ "a" \notin hotkeys[i].state) =>
            JustArmed(eng')]_vars

C17_Witness ==
    /\ pcD = "chk"
    /\ dKey = "a"
    /\ ev.armedHere
    /\ JustArmed(eng)
    /\ RegisteredCombinations = <<CombG, CombA>>

\* The "+"-separated segments of each combination of ApiCombos, written out.
ExpectedSegments ==
    (CombA :> {"a"}) @@ (CombAVariant :> {"a"}) @@ (CombG :> {"g"})
    @@ (CombAG :> {"a", "g"}) @@ (CombGA :> {"a", "g"}) @@ (CombEmpty :> {})

\* C18 as claimed: two combinations with the same segments in another order
\* are the same binding: registering the second adds no binding, and trigger
\* and unregister with either order find the binding.
C18_OrderInsensitive ==
    [][(/\ last'.seq # last.seq
        /\ last'.op \in {"register", "trigger", "unregister"}
        /\ last'.comb # <<>>
        /\ \E i \in 1..Len(hotkeys) :
              ExpectedSegments[hotkeys[i].combination] = ExpectedSegments[last'.comb]) =>
            /\ last'.op = "register" => last'.res # "ok"
            /\ last'.op = "unregister" => last'.res = "true"
            /\ last'.op = "trigger" => Len(last'.fired) = 1]_vars

C20_ChordAtomic ==
    [][(pcD = "chord" /\ pcD' # "chord" /\ ~eng.armed) =>
            /\ eng' = eng
            /\ ev'.fired = <<>>]_vars

\* seq is a strict prefix of some key of map.
StrictPrefixOfAny(seq, map) ==
    \E s \in DOMAIN map : Len(seq) < Len(s) /\ SubSeq(s, 1, Len(seq)) = seq

\* C21 as claimed: whenever the engine is Armed, the buffer is a strict prefix
\* of at least one key of the current sequence map.
C21_BufferIsPrefix ==
    eng.armed => StrictPrefixOfAny(eng.buffer, suffix_seq_map)

\* C22 as claimed: whenever the engine is Disarmed, the buffer is empty and
\* the ignore-next flag is false.
C22_DisarmedIsClean ==
    ~eng.armed => (eng.buffer = <<>> /\ ~eng.ignore_next)

\* C23: in the dispatch of one press the matchers are fed before the chord
\* part runs.  When the press completes the activator (and no other thread
\* arms or disarms meanwhile), the event ends with the engine Armed, the
\* buffer empty and ignore-next cleared, and invokes no chord callback; the
\* next press of a mapped key is handled as the first token of the buffer.
C23_ActivatorPressAbsorbed ==
    [][/\ pcD' \in {"chk", "chord"} => dSnap' = <<>>
       /\ (/\ pcD = "chord" /\ pcD' = "idle"
           /\ ev.armedHere /\ sess.track = <<>>) =>
            /\ eng.ignore_next
            /\ eng'.armed /\ eng'.buffer = <<>> /\ ~eng'.ignore_next
            /\ eng'.arm_timer.ms = eng.arm_timer.ms
            /\ ev'.fired = <<>>
       /\ (/\ pcD = "chord" /\ pcD' = "idle"
           /\ ~ev.armedHere /\ sess.track = <<>>
           /\ KeyToToken(dKey) \notin {NoToken, "esc"}) =>
            /\ eng.armed /\ ~eng.ignore_next /\ eng.buffer = <<>>
            /\ IF <<KeyToToken(dKey)>> \in DOMAIN suffix_seq_map
               THEN /\ ev'.fired # <<>>
                    /\ ev'.fired[1].cb = suffix_seq_map[<<KeyToToken(dKey)>>]
                    /\ ~eng'.armed
               ELSE IF \E s \in DOMAIN suffix_seq_map : s[1] = KeyToToken(dKey)
               THEN eng'.armed /\ eng'.buffer = <<KeyToToken(dKey)>>
               ELSE ~eng'.armed /\ eng'.buffer = <<>>]_vars

C23_Witness ==
    /\ pcD = "idle"
    /\ eng.armed
    /\ ~eng.ignore_next
    /\ eng.buffer = <<"g">>
    /\ sess.track = <<"g">>
    /\ sess.open

\* C24: a press that extends the buffer to a strict prefix of a registered
\* sequence leaves the engine Armed and the timer as it is; no dispatch step
\* puts a timer that has run out back to waiting.
C24_PrefixKeepsTimer ==
    [][/\ (/\ pcD = "chord" /\ pcD' = "idle"
           /\ eng.armed /\ ~eng.ignore_next
           /\ KeyToToken(dKey) \notin {NoToken, "esc"}
           /\ Append(eng.buffer, KeyToToken(dKey)) \notin DOMAIN suffix_seq_map
           /\ StrictPrefixOfAny(Append(eng.buffer, KeyToToken(dKey)), suffix_seq_map)) =>
            /\ eng'.armed
            /\ eng'.buffer = Append(eng.buffer, KeyToToken(dKey))
            /\ eng'.arm_timer = eng.arm_timer
            /\ ev'.fired = <<>>
       /\ (pcD = "chord" /\ pcD' = "idle" /\ eng.arm_timer.st = "fired") =>
            eng'.arm_timer.st # "waiting"]_vars

C24_Witness ==
    /\ pcD = "idle"
    /\ eng.armed
    /\ eng.buffer = <<"g">>
    /\ eng.arm_timer.st = "fired"
    /\ expiring = 1
    /\ ev.endAtBegin = "none" /\ ev.fired = <<>>

\* The chord step of a press whose token completes a registered sequence
\* fires that sequence's callback and disarms.
ExactMatchFires ==
    (/\ pcD = "chord" /\ pcD' = "idle" /\ ~eng.ignore_next
     /\ KeyToToken(dKey) \notin {NoToken, "esc"}
     /\ Append(eng.buffer, KeyToToken(dKey)) \in DOMAIN suffix_seq_map) =>
        /\ Len(ev'.fired) = 1
        /\ ev'.fired[1].via = "chord"
        /\ ev'.fired[1].cb = suffix_seq_map[Append(eng.buffer, KeyToToken(dKey))]
        /\ ~eng'.armed /\ eng'.buffer = <<>>

\* The sequence whose callback the chord step fires has no registered strict
\* prefix.
FiredHasNoRegisteredPrefix ==
    (pcD = "chord" /\ pcD' = "idle" /\ ev'.fired # <<>>) =>
        \A p \in DOMAIN suffix_seq_map :
            ~(/\ Len(p) < Len(eng.buffer) + 1
              /\ IsPrefixOf(p, Append(eng.buffer, KeyToToken(dKey))))

\* C25 as claimed: an exact match fires and disarms even when a longer
\* sequence is registered, and a registered sequence with a registered strict
\* prefix is never invoked by key events.
C25_NestedNeverFires ==
    [][ExactMatchFires /\ FiredHasNoRegisteredPrefix]_vars

\* C25, amended: an exact match fires and disarms even when a longer sequence
\* is registered; a registered sequence with a registered strict prefix is
\* not invoked by key events unless the sequence map was replaced while the
\* session had tokens in its buffer.
C25_NestedFiresOnlyAfterSwap ==
    [][ExactMatchFires /\ (~sess.swapped => FiredHasNoRegisteredPrefix)]_vars

C25_Witness ==
    /\ pcD = "idle"
    /\ suffix_seq_map = SeqMapNested
    /\ Len(ev.fired) = 1
    /\ ev.fired[1].cb = UserCb("cbBoom")
    /\ ev.fired[1].via = "chord"
    /\ sess.ends = <<"match">>
    /\ ~eng.armed

\* C26 as claimed: configure_chord_sequences is atomic for the dispatch: no
\* key event arms the engine through the new activator binding while the
\* sequence map of that call is not yet installed.
C26_ReconfigureAtomic ==
    [][(pcM = "cfg" /\ pcM' = "cfg") => ~(eng' # eng /\ JustArmed(eng'))]_vars

\* C27: a successful configure_chord_sequences while the engine is Armed
\* leaves armed, buffer, ignore-next and the timer as they are and installs
\* the new map; the next presses of the session are matched against the map
\* in force when they are dispatched.
C27_ConfigureKeepsSession ==
    [][/\ pcM' # pcM => eng' = eng
       /\ (pcM = "cfg" /\ pcM' = "idle") =>
            /\ suffix_seq_map' = cfg.seq_map
            /\ arm_timeout_ms' = 500
       /\ (/\ pcD = "chord" /\ pcD' = "idle" /\ sess.swapped
           /\ eng.armed /\ ~eng.ignore_next
           /\ KeyToToken(dKey) \notin {NoToken, "esc"}) =>
            IF Append(eng.buffer, KeyToToken(dKey)) \in DOMAIN suffix_seq_map
            THEN /\ Len(ev'.fired) = 1
                 /\ ev'.fired[1].cb = suffix_seq_map[Append(eng.buffer, KeyToToken(dKey))]
                 /\ ~eng'.armed
            ELSE IF StrictPrefixOfAny(Append(eng.buffer, KeyToToken(dKey)), suffix_seq_map)
            THEN /\ eng'.armed /\ ev'.fired = <<>>
                 /\ eng'.buffer = Append(eng.buffer, KeyToToken(dKey))
            ELSE ~eng'.armed /\ ev'.fired = <<>>]_vars

C27_Witness ==
    /\ pcM = "idle"
    /\ sess.swapped
    /\ eng.armed
    /\ eng.buffer = <<"g">>
    /\ eng.arm_timer.st = "waiting"
    /\ suffix_seq_map = SeqMapNested

\* C28 as claimed: a configure call that fails because the activator is
\* already in the binding table leaves the table, the sequence map, the
\* timeout, the recorded activator and the engine as they were.
C28_DuplicateConfigureNoChange ==
    [][(/\ last'.seq # last.seq
        /\ last'.op \in {"configure", "configure_chord"}
        /\ last'.res = "duplicate") =>
            <<hotkeys, suffix_seq_map, arm_timeout_ms, activator_combo, eng>>' =
            <<hotkeys, suffix_seq_map, arm_timeout_ms, activator_combo, eng>>]_vars

\* C29: an Armed engine always has a timer that is waiting or has run out
\* with its thread on the way to _disarm, and it becomes Disarmed whatever
\* else happens, key events or none.
C29_ArmedEventuallyDisarmed ==
    /\ [](eng.armed =>
            \/ eng.arm_timer.st = "waiting"
            \/ eng.arm_timer.st = "fired" /\ expiring > 0)
    /\ (eng.armed ~> ~eng.armed)

C29_Witness ==
    /\ pcD = "idle"
    /\ ~eng.armed
    /\ sess.ends = <<"timeout">>
    /\ sess.calls = <<>>
    /\ expiring = 0

\* C30: while Armed with the ignore-next flag cleared, the chord step of a
\* press of the modifier ctrl leaves the engine (armed, buffer, flag, timer)
\* as it is and invokes no callback; no buffer ever holds a modifier.
C30_UntokenedPressIgnored ==
    [][/\ (/\ pcD = "chord" /\ pcD' # "chord"
           /\ dKey = "<ctrl>"
           /\ eng.armed /\ ~eng.ignore_next) =>
            /\ eng' = eng
            /\ ev'.fired = <<>>
            /\ pcD' = "idle"
       /\ \A i \in 1..Len(eng'.buffer) : eng'.buffer[i] \in {"a", "g", "h"}]_vars

C30_Witness ==
    /\ ev.untokened
    /\ pcD = "idle"
    /\ eng.armed
    /\ eng.buffer = <<"g">>
    /\ eng.arm_timer.st = "waiting"

\* The callbacks a dispatch step invoked, in order.
Cbs(fired) == [i \in 1..Len(fired) |-> fired[i].cb]

\* A step of the listener thread inside _dispatch, after the snapshot.
DispatchStep == pcD # "idle" /\ (pcD' # pcD \/ Len(dSnap') < Len(dSnap))

\* C31 as claimed: the dispatch of a release changes nothing in the engine
\* and invokes no chord callback; a dispatch step that finds the engine
\* Disarmed leaves the buffer as it is and invokes no chord callback, and
\* changes the engine only by arming it in the feed.
C31_ChordOnlyForArmedPress ==
    [][DispatchStep =>
        /\ dAction = "release" => (eng' = eng /\ NoChord(ev'.fired))
        /\ ~eng.armed =>
            /\ eng'.buffer = eng.buffer
            /\ NoChord(ev'.fired)
            /\ eng' # eng => (pcD = "feed" /\ JustArmed(eng'))]_vars

\* The keys listener.canonical returns for the raw keys.
CanonicalKeys == {"a", "g", "h", "<esc>", "<ctrl>"}

\* A dispatch starts only with a listener; its snapshot holds every binding
\* of the table, in order, and the key is the canonical one.
SnapshotIsTable ==
    (pcD = "idle" /\ pcD' # "idle") =>
        /\ listener # "none"
        /\ dKey' \in CanonicalKeys
        /\ dAction' \in {"press", "release"}
        /\ Len(dSnap') = Len(hotkeys)
        /\ \A i \in 1..Len(hotkeys) :
            dSnap'[i].norm = hotkeys[i].norm /\ dSnap'[i].keys = hotkeys[i].keys

\* Without a listener no dispatch gets to the feed.
NoListenerNoFeed ==
    (pcD = "idle" /\ listener = "none") => (pcD' = "idle" /\ dSnap' = dSnap)

\* One step of the feed loop feeds the first binding of the snapshot and
\* takes it off; the matcher of a binding still in the table gets the key,
\* all other matchers stay as they are.
FedOnce ==
    (pcD = "feed" /\ Len(dSnap') < Len(dSnap)) =>
        LET b == Head(dSnap)
            i == IndexOf(hotkeys, b.norm, 1)
        IN  /\ dSnap' = Tail(dSnap)
            /\ Len(hotkeys') = Len(hotkeys)
            /\ \A j \in 1..Len(hotkeys) :
                hotkeys'[j].state =
                    IF ~b.dead /\ j = i
                    THEN Feed(dAction, dKey, b.keys, hotkeys[j].state)
                    ELSE hotkeys[j].state

\* The step of the feed loop ran the callback bound to combination norm.
RanCallbackOf(norm) ==
    LET i == IndexOf(hotkeys, norm, 1)
    IN  /\ i # 0
        /\ IF hotkeys[i].callback.kind = "arm"
           THEN JustArmed(eng') /\ ev'.fired = <<>>
           ELSE Cbs(ev'.fired) = <<hotkeys[i].callback>>

\* The matcher state the feed finds for the first binding of the snapshot.
HeadState ==
    IF Head(dSnap).dead THEN Head(dSnap).state
    ELSE hotkeys[IndexOf(hotkeys, Head(dSnap).norm, 1)].state

HeadActivates == Activates(dAction, dKey, Head(dSnap).keys, HeadState)

\* C32 as claimed: every binding of the table at the moment of dispatch is
\* fed the canonical key exactly once, and when the matcher of such a binding
\* activates, its callback runs; without a listener nothing is fed.
C32_ActivationRunsCallback ==
    [][/\ SnapshotIsTable
       /\ NoListenerNoFeed
       /\ FedOnce
       /\ (pcD = "feed" /\ Len(dSnap') < Len(dSnap) /\ HeadActivates) =>
            \/ RanCallbackOf(Head(dSnap).norm)
            \/ ev'.fired # <<>>]_vars

\* C32: every binding of the table at the moment of dispatch is fed the
\* canonical key exactly once; when the matcher of such a binding activates,
\* the callback that is in the table under its combination at that moment
\* runs, and none runs when the combination was unregistered since the
\* snapshot; a matcher that does not activate runs nothing; without a
\* listener nothing is fed.
C32_ActivationRunsRegistered ==
    [][/\ SnapshotIsTable
       /\ NoListenerNoFeed
       /\ FedOnce
       /\ (pcD = "feed" /\ Len(dSnap') < Len(dSnap)) =>
            IF HeadActivates /\ Registered(hotkeys, Head(dSnap).norm)
            THEN RanCallbackOf(Head(dSnap).norm)
            ELSE ev'.fired = <<>> /\ eng' = eng]_vars

C32_Witness ==
    /\ ev.orphan
    /\ ev.fired = <<>>
    /\ pcD = "chk"
    /\ dKey = "g"
    /\ ~Registered(hotkeys, <<"g">>)
    /\ listener = "L"

\* A step that arms an engine that is Armed already.
ReArms ==
    /\ eng.armed /\ eng'.armed
    /\ eng' # eng
    /\ expiring' = expiring
    /\ pcD # "chord"
    /\ pcM' = pcM

\* C33: arming an Armed engine clears the buffer, sets the ignore-next flag
\* and leaves one pending timer, a new one waiting for timeout_ms, whether
\* the timer before was waiting or had run out.
C33_ReArmStartsFresh ==
    [][ReArms =>
        /\ eng'.buffer = <<>>
        /\ eng'.ignore_next
        /\ eng'.arm_timer = [st |-> "waiting", ms |-> 500]
        /\ pending' = 1]_vars

C33_Witness ==
    /\ ev.over
    /\ eng.armed /\ eng.ignore_next /\ eng.buffer = <<>>
    /\ eng.arm_timer.st = "waiting"
    /\ expiring = 1
    /\ pending = 1

\* C34 as claimed: the _disarm of a timer thread whose timer is not the one
\* the engine holds (that one is still waiting) leaves an Armed engine Armed.
C34_StaleExpiryHarmless ==
    [][(/\ expiring' < expiring
        /\ eng.armed
        /\ eng.arm_timer.st = "waiting") => eng'.armed]_vars

\* C35: while Armed, the feed invokes the callback of a direct binding whose
\* matcher activates and the dispatch goes on with the same key; the chord
\* part then takes that key as a token: it ends the session with the chord
\* callback on an exact match, extends the buffer on a prefix, and disarms
\* otherwise.
C35_DirectThenChord ==
    [][/\ (/\ pcD = "feed" /\ Len(dSnap') < Len(dSnap)
           /\ eng.armed
           /\ dKey = "g" /\ Head(dSnap).norm = <<"g">> /\ ~Head(dSnap).dead
           /\ HeadActivates) =>
            /\ Cbs(ev'.fired) = <<UserCb("cbBoom")>>
            /\ ev'.fired[1].via = "direct"
            /\ eng' = eng
            /\ pcD' \in {"feed", "chk"}
            /\ dKey' = dKey /\ dAction' = dAction
       /\ (/\ pcD = "chord" /\ pcD' # "chord"
           /\ ev.direct
           /\ eng.armed /\ ~eng.ignore_next) =>
            LET seq == Append(eng.buffer, dKey)
            IN  IF seq \in DOMAIN suffix_seq_map
                THEN /\ Cbs(ev'.fired) = <<suffix_seq_map[seq]>>
                     /\ ev'.fired[1].via = "chord"
                     /\ ~eng'.armed
                ELSE IF StrictPrefixOfAny(seq, suffix_seq_map)
                THEN eng'.armed /\ eng'.buffer = seq /\ ev'.fired = <<>>
                ELSE ~eng'.armed /\ ev'.fired = <<>>]_vars

C35_Witness ==
    /\ ev.direct
    /\ pcD = "idle"
    /\ eng.armed
    /\ eng.buffer = <<"g">>
    /\ Registered(hotkeys, <<"g">>)

C37_RaisingBindingStays ==
    [][/\ (/\ last' # last
           /\ last'.op = "trigger"
           /\ last'.fired # <<>>
           /\ last'.fired[1].name = "cbBoom") =>
            /\ last'.res = "false"
            /\ hotkeys' = hotkeys
            /\ Bound(hotkeys', last'.comb) = last'.fired[1]
       /\ (/\ last' # last
           /\ last.op = "trigger" /\ last'.op = "trigger"
           /\ last'.comb = last.comb
           /\ last.fired # <<>>) => last'.fired = last.fired]_vars

C37_Witness ==
    /\ last.op = "trigger"
    /\ last.comb = CombAVariant
    /\ last.res = "false"
    /\ last.fired = <<UserCb("cbBoom")>>
    /\ Len(hotkeys) = 2

\* max(100, timeout_ms), written out.
AtLeast100(ms) == IF ms < 100 THEN 100 ELSE ms

\* C39: the stored timeout is never below 100 ms and is max(100, timeout_ms)
\* of the configure call that stored it; the timer an activator starts runs
\* for max(100, timeout_ms) of the configure call that made the activator.
C39_TimeoutAtLeast100 ==
    [][/\ arm_timeout_ms' >= 100
       /\ eng'.arm_timer.st # "none" => eng'.arm_timer.ms >= 100
       /\ (pcM = "cfg" /\ pcM' = "idle") => arm_timeout_ms' = AtLeast100(cfg.timeout_ms)
       /\ (/\ last' # last /\ last'.op = "trigger"
           /\ last'.fired # <<>> /\ last'.fired[1].kind = "arm") =>
            eng'.arm_timer = [st |-> "waiting", ms |-> AtLeast100(last'.fired[1].ms)]]_vars

C39_Witness ==
    /\ eng.armed
    /\ eng.arm_timer.ms = 100
    /\ arm_timeout_ms = 100
    /\ last.op = "trigger"
    /\ last.fired = <<ArmCb(-50)>>

\* C40: the engine is Armed exactly when a timer handle is stored; at most
\* one timer is pending, and it is the stored one: a timer that _arm replaced
\* or _disarm dropped is not pending any more.
C40_ArmedIffTimer ==
    /\ eng.armed <=> eng.arm_timer.st # "none"
    /\ pending \in {0, 1}
    /\ pending = 1 <=> eng.arm_timer.st = "waiting"

C40_Witness ==
    /\ eng.armed
    /\ eng.arm_timer.st = "waiting"
    /\ pending = 1
    /\ expiring = 1
    /\ eng.buffer = <<"g">>

\* C38: with no activator configured, after every step the two managers
\* hold the same binding table (matcher states included) and the same
\* listener, the call just made returned the same result in both, and the
\* step invoked the same callbacks in the same order in both.
C38_PlainEquivalent ==
    [][/\ plain'.hotkeys = hotkeys'
       /\ plain'.listener = listener'
       /\ plain'.res = last'.res
       /\ plain'.fired = IF last' # last THEN last'.fired ELSE Cbs(ev'.fired)
       /\ Len(plain'.snap) = Len(dSnap')]_vars

C38_Witness ==
    /\ plain.on
    /\ Len(hotkeys) = 2
    /\ pcD = "chk"
    /\ plain.fired = <<UserCb("cbBoom")>>
    /\ last.op = "register" /\ last.res = "duplicate"

====
